---- MODULE Spec2Model ----
(***************************************************************************)
(* CompressAction benchmark runner (src/backend/compressRunner.js).        *)
(*                                                                         *)
(* The repository holds two definitions of runCompressionJob: the runner   *)
(* that spawns the external tools (lines 1-113) and the single-tool zlib   *)
(* fallback (lines 115-199).  The variable impl says which of the two a    *)
(* behaviour runs; both are modelled.                                      *)
(*                                                                         *)
(* A job is an async function: every action below is one synchronous       *)
(* stretch of it, or one event the environment delivers to it (the close   *)
(* or error event of a child process, the end of a stream, the completion  *)
(* of the CSV stream's open and write).                                    *)
(***************************************************************************)
EXTENDS Integers, Sequences, FiniteSets, TLC

\* ---------------------------------------------------------------- bounds

\* longest tools list of a request
MaxTools == 2
\* Date.now() runs over 0..MaxClock
MaxClock == 1
\* the input file is MaxSize bytes long, in some runs empty
MaxSize == 2
\* requested levels reach LevelSlack beyond both ends of the UI's slider
LevelSlack == 2
\* process.hrtime.bigint() difference measured for one tool run
SampleElapsedNs == 1234567

\* ------------------------------------------------------ program constants

UiMinLevel == 1
UiMaxLevel == 19
DefaultLevel == 6
BzMinLevel == 1
BzMaxLevel == 9
ZlibMinLevel == -1
ZlibMaxLevel == 9

Jobs == {1, 2}

\* the keys of TOOLS
ToolIds == {"gzip", "bzip2", "xz", "zstd", "lz4"}
\* identifiers a caller may put in a request: the keys and one unknown one
ReqIds == ToolIds \cup {"brotli"}

VARIABLES
  impl,        \* "cli": runCompressionJob of line 60; "zlib": that of line 153
  request,     \* request[j]: the JobRequest of job j
  pc,          \* pc[j]: where job j stands
  fs,          \* the file system: path |-> data, for the files that exist
  dirs,        \* the directories that exist
  onPath,      \* the commands found on the executable search path
  nextTmp,     \* the suffix mkdtempSync hands out next
  tempInput,   \* tempInput[j]
  selected,    \* selected[j]
  idx,         \* idx[j]: position of the per-tool loop in selected[j]
  results,     \* results[j]
  children,    \* the child processes that are running
  spawned,     \* every spawn call so far, in order
  now,         \* Date.now()
  csvPath,     \* csvPath[j]
  csvStream,   \* csvStream[j]: the rows handed to the CSV stream, not yet on disk
  promoted,    \* promoted[j]: destinations of the copyFileSync calls of the promotion
  error,       \* error[j]: message of the error the job was rejected with
  exits        \* exits[j]: the close events of the job's children, in order

vars == <<impl, request, pc, fs, dirs, onPath, nextTmp, tempInput, selected,
          idx, results, children, spawned, now, csvPath, csvStream, promoted,
          error, exits>>

\* ------------------------------------------------------------------ paths

SrcDir == <<"src", 0>>
OutDir == <<"out", 0>>
LogsDir == <<"logs", 0>>
\* TmpDir with one fixed working directory instead of a fresh one per call
TmpDirFixed(n) == <<"tmp", 0>>

\* fs.mkdtempSync(...): the n-th call gets a directory of its own
TmpDir(n) == <<"tmp", n>>

\* path.join(dir, name)
Join(dir, name) == [dir |-> dir, name |-> name]
\* path.basename(p)
Basename(p) == p.name
\* p + ext
Plus(p, ext) == [dir |-> p.dir, name |-> p.name \o ext]

InputFile == Join(SrcDir, "a.txt")
NoPath == [dir |-> <<"none", 0>>, name |-> ""]

\* fs.existsSync(p)
existsSync(p) == p \in DOMAIN fs

Exists(f, p) == p \in DOMAIN f
WriteFile(f, p, d) == (p :> d) @@ f
Unlink(f, p) == [q \in (DOMAIN f) \ {p} |-> f[q]]
\* fs.copyFileSync(a, b)
CopyFile(f, a, b) == WriteFile(f, b, f[a])

\* ------------------------------------------------------------------ TOOLS

Min(a, b) == IF a < b THEN a ELSE b
Max(a, b) == IF a > b THEN a ELSE b

\* TOOLS[t] is defined
ToolKnown(t) == t \in ToolIds
ToolCmd(t) == t
\* ToolArgs with the clamp of bzip2 left out
ToolArgsUnclamped(t, lvl) == [keep |-> "-k", level |-> lvl]

\* TOOLS[t].args(lvl): the flag and the number the level flag carries
ToolArgs(t, lvl) ==
  IF t = "bzip2"
    THEN [keep |-> "-k", level |-> Min(BzMaxLevel, Max(BzMinLevel, lvl))]
    ELSE [keep |-> "-k", level |-> lvl]

existsOnPath(cmd) == cmd \in onPath

\* the outPath table of runOne's close handler
OutExt(t) ==
  CASE t = "gzip" -> ".gz"
    [] t = "bzip2" -> ".bz2"
    [] t = "xz" -> ".xz"
    [] t = "zstd" -> ".zst"
    [] t = "lz4" -> ".lz4"

\* the extensions the per-tool cleanup removes
CleanupExts == <<".gz", ".bz2", ".xz", ".zst", ".lz4">>

\* ------------------------------------------------------------- ToolResult

SkippedRow(t, why) == [tool |-> t, skipped |-> TRUE, reason |-> why]
FailedCodeRow(t, code) == [tool |-> t, error |-> TRUE, code |-> code]
FailedMessageRow(t, msg) == [tool |-> t, error |-> TRUE, message |-> msg]

\* srcSize > 0 ? (1 - (dstSize / srcSize)) : 0, kept as an exact fraction
Ratio(srcSize, dstSize) ==
  IF srcSize > 0 THEN [num |-> srcSize - dstSize, den |-> srcSize]
                 ELSE [num |-> 0, den |-> 1]

\* the row of the try block: both stats, the ratio, the resolve
StatRow(f, t, lvl, inputPath, outPath, elapsed) ==
  IF Exists(f, inputPath) /\ Exists(f, outPath)
    THEN [tool |-> t, level |-> lvl,
          srcSize |-> f[inputPath].size, dstSize |-> f[outPath].size,
          ratio |-> Ratio(f[inputPath].size, f[outPath].size),
          elapsedNs |-> elapsed, outPath |-> outPath]
    ELSE FailedMessageRow(t, "ENOENT")

Has(r, field) == field \in DOMAIN r
IsSkipped(r) == Has(r, "skipped") /\ r.skipped
IsFailed(r) == Has(r, "error") /\ r.error
IsSucceeded(r) == ~IsSkipped(r) /\ ~IsFailed(r)

\* -------------------------------------------------------------------- CSV

\* a cell is <<>> when empty and <<v>> when it holds v
EmptyCell == <<>>
Cell(v) == <<v>>

Abs(n) == IF n < 0 THEN -n ELSE n
\* x.toFixed(digits) of the fraction num/den, as the integer x * 10^digits
\* rounded to nearest, halves away from zero
ToFixed(num, den, scale) ==
  LET q == (2 * Abs(num) * scale + den) \div (2 * den)
  IN  IF num < 0 THEN -q ELSE q

CsvHeader == <<"tool", "level", "src_bytes", "dst_bytes", "ratio_saved",
               "elapsed_ms", "status">>

\* the object passed to csvStream.write, or the line of the fallback
CsvRow(r) ==
  [tool |-> Cell(r.tool),
   level |-> IF Has(r, "level") THEN Cell(r.level) ELSE EmptyCell,
   src_bytes |-> IF Has(r, "srcSize") THEN Cell(r.srcSize) ELSE EmptyCell,
   dst_bytes |-> IF Has(r, "dstSize") THEN Cell(r.dstSize) ELSE EmptyCell,
   ratio_saved |-> IF Has(r, "ratio")
                     THEN Cell(ToFixed(r.ratio.num, r.ratio.den, 10000))
                     ELSE EmptyCell,
   elapsed_ms |-> IF Has(r, "elapsedNs") /\ r.elapsedNs # 0
                    \* (ns / 1e6).toFixed(3): thousandths of a millisecond
                    THEN Cell(ToFixed(r.elapsedNs, 1000, 1))
                    ELSE EmptyCell,
   status |-> IF IsFailed(r) THEN "error"
              ELSE IF IsSkipped(r) THEN "skipped" ELSE "ok"]

\* a line of the CSV file: the header line or a data line
HeaderLine == [kind |-> "header", cells |-> CsvHeader]
RowLine(r) == [kind |-> "row", cells |-> CsvRow(r)]

CsvRows(rs) == [i \in 1..Len(rs) |-> RowLine(rs[i])]

\* What format({ headers: true }) puts on the stream: the header is taken
\* from the keys of the first row written, so it is written with that row
\* and a stream that is ended without a row carries nothing.
CsvLinesCli(rs) ==
  IF Len(rs) = 0 THEN <<>> ELSE <<HeaderLine>> \o CsvRows(rs)

\* lines = [headers.join(',')] followed by one line per result
CsvLinesZlib(rs) == <<HeaderLine>> \o CsvRows(rs)

CsvName(t) == "run_" \o ToString(t) \o ".csv"

\* ------------------------------------------------------------------- Init

NoRequest == [inputPath |-> NoPath, outputDir |-> OutDir, tools |-> <<>>,
              level |-> DefaultLevel]
NoStream == [state |-> "none", path |-> NoPath, lines |-> <<>>]

ToolLists(n) == UNION {[1..k -> ReqIds] : k \in 0..n}

\* the tool identifiers of a list that TOOLS knows
Known(ts) == {ts[i] : i \in 1..Len(ts)} \cap ToolIds

\* the file the user picked: n bytes of the user's data, n taken from sizes
InputData(sizes) == {[size |-> n, content |-> "user"] : n \in sizes}

\* What all initial states share: nothing has run.  The input file exists or
\* not; of the commands only those a request names are taken to be on the
\* search path or not (existsOnPath is asked of no other).
InitCommon(reqs, sizes) ==
  /\ impl \in {"cli", "zlib"}
  /\ \E d \in InputData(sizes) : fs \in {<<>>, InputFile :> d}
  /\ dirs = {SrcDir}
  /\ onPath \in SUBSET UNION {Known(r.tools) : r \in reqs}
  /\ nextTmp = 1
  /\ tempInput = [j \in Jobs |-> NoPath]
  /\ selected = [j \in Jobs |-> <<>>]
  /\ idx = [j \in Jobs |-> 1]
  /\ results = [j \in Jobs |-> <<>>]
  /\ children = {}
  /\ spawned = <<>>
  /\ now = 0
  /\ csvPath = [j \in Jobs |-> NoPath]
  /\ csvStream = [j \in Jobs |-> NoStream]
  /\ promoted = [j \in Jobs |-> <<>>]
  /\ error = [j \in Jobs |-> ""]
  /\ exits = [j \in Jobs |-> <<>>]

Request(ts, lvl, out) ==
  [inputPath |-> InputFile, outputDir |-> out, tools |-> ts, level |-> lvl]

\* one job, any tools list up to MaxTools, the default level, the output
\* directory a new one or the input's own, an input of MaxSize bytes
Init ==
  /\ \E ts \in ToolLists(MaxTools), out \in {OutDir, SrcDir} :
       request = [j \in Jobs |-> IF j = 1 THEN Request(ts, DefaultLevel, out)
                                          ELSE NoRequest]
  /\ pc = [j \in Jobs |-> IF j = 1 THEN "idle" ELSE "unused"]
  /\ InitCommon({request[1]}, {MaxSize})

\* any integer level around the UI's range, one tool, an input that is empty
\* or MaxSize bytes long
LevelRange == (UiMinLevel - LevelSlack)..(UiMaxLevel + LevelSlack)
InitLevels ==
  /\ \E t \in ReqIds, lvl \in LevelRange :
       request = [j \in Jobs |-> IF j = 1 THEN Request(<<t>>, lvl, OutDir)
                                          ELSE NoRequest]
  /\ pc = [j \in Jobs |-> IF j = 1 THEN "idle" ELSE "unused"]
  /\ InitCommon({request[1]}, {0, MaxSize})

\* two jobs on the same input and output directory, each with no tool or gzip
InitTwo ==
  /\ request \in [Jobs -> {Request(ts, DefaultLevel, OutDir) :
                             ts \in {<<>>, <<"gzip">>}}]
  /\ pc = [j \in Jobs |-> "idle"]
  /\ InitCommon({request[j] : j \in Jobs}, {0, MaxSize})

\* ---------------------------------------------------------------- actions

\* what the environment may have a tool do before it exits: write its
\* output next to its target or not, keep its target or delete it
DstSizes == {MaxSize - 1, MaxSize + 1}
ExitOutcomes ==
  {[code |-> 0, wrote |-> TRUE, kept |-> TRUE, dstSize |-> d] : d \in DstSizes}
  \cup {[code |-> 0, wrote |-> FALSE, kept |-> TRUE, dstSize |-> 0],
        [code |-> 0, wrote |-> TRUE, kept |-> FALSE, dstSize |-> MaxSize - 1],
        [code |-> 1, wrote |-> FALSE, kept |-> TRUE, dstSize |-> 0]}

\* the file system after the child c ran to its exit with outcome o: the
\* tool works on the path it was given as its last argument
ToolEffect(f, c, o) ==
  LET f1 == IF o.wrote
              THEN WriteFile(f, Plus(c.target, OutExt(c.cmd)),
                             [size |-> o.dstSize, content |-> c.cmd])
              ELSE f
  IN  IF o.kept THEN f1 ELSE Unlink(f1, c.target)

\* DirsAtThrow with the check of line 61 made after mkdtempSync
DirsAtThrowLate(req) == dirs \cup {TmpDir(nextTmp)}

\* the directories that exist when the missing input is reported (line 61
\* throws before anything is created)
DirsAtThrow(req) == dirs

\* tools.filter(t => TOOLS[t])
SelectTools(ts) == SelectSeq(ts, ToolKnown)

\* new zlib.Gzip({ level }) accepts the levels of zlib only
GzipLevelOk(lvl) == ZlibMinLevel <= lvl /\ lvl <= ZlibMaxLevel

\* runCompressionJob up to its loop (cli, lines 61-70) or up to the await of
\* gzipFile (zlib, lines 154-168)
Start(j) ==
  /\ pc[j] = "idle"
  /\ LET req == request[j]
         tempDir == TmpDir(nextTmp)
         tIn == Join(tempDir, Basename(req.inputPath))
     IN  IF ~existsSync(req.inputPath)
           THEN /\ pc' = [pc EXCEPT ![j] = "rejected"]
                /\ error' = [error EXCEPT ![j] = "Input file not found"]
                /\ dirs' = DirsAtThrow(req)
                /\ UNCHANGED <<fs, nextTmp, tempInput, selected, results>>
           ELSE /\ dirs' = dirs \cup {req.outputDir, tempDir}
                /\ nextTmp' = nextTmp + 1
                /\ tempInput' = [tempInput EXCEPT ![j] = tIn]
                /\ fs' = CopyFile(fs, req.inputPath, tIn)
                /\ IF impl = "cli"
                     THEN /\ selected' = [selected EXCEPT
                                            ![j] = SelectTools(req.tools)]
                          /\ pc' = [pc EXCEPT ![j] = "loop"]
                          /\ UNCHANGED <<results, error>>
                     ELSE /\ UNCHANGED selected
                          /\ IF \E i \in 1..Len(req.tools) : req.tools[i] = "gzip"
                               THEN IF GzipLevelOk(req.level)
                                      THEN /\ pc' = [pc EXCEPT ![j] = "gzipping"]
                                           /\ UNCHANGED <<results, error>>
                                      ELSE /\ pc' = [pc EXCEPT ![j] = "rejected"]
                                           /\ error' = [error EXCEPT
                                                          ![j] = "RangeError"]
                                           /\ UNCHANGED results
                               ELSE /\ results' = [results EXCEPT ![j] =
                                          <<SkippedRow("gzip", "gzip_not_selected")>>]
                                    /\ pc' = [pc EXCEPT ![j] = "tail"]
                                    /\ UNCHANGED error
  /\ UNCHANGED <<impl, exits, request, onPath, idx, children, spawned, now, csvPath,
                 csvStream, promoted>>

\* the forEach of line 73: every extension's file next to tIn is removed
Cleanup(f, tIn) ==
  LET gone == {Plus(tIn, CleanupExts[i]) : i \in 1..Len(CleanupExts)}
  IN  [q \in (DOMAIN f) \ gone |-> f[q]]

\* AfterSpawn with the await of line 77 left out
AfterSpawnNoAwait == "loop"

\* where the loop stands once runOne has spawned the child: at the await
AfterSpawn == "await"

\* ToolTarget with the tools run on the original
ToolTargetOriginal(j) == request[j].inputPath

\* the path the loop hands to runOne and cleans up around: the temp copy
ToolTarget(j) == tempInput[j]

\* one turn of the loop of line 71 up to its await: the cleanup, then runOne
\* up to its early resolve or its spawn
RunTool(j) ==
  /\ impl = "cli"
  /\ pc[j] = "loop"
  /\ idx[j] <= Len(selected[j])
  /\ LET t == selected[j][idx[j]]
     IN  /\ fs' = Cleanup(fs, ToolTarget(j))
         /\ IF ~ToolKnown(t) \/ ~existsOnPath(ToolCmd(t))
              THEN /\ results' = [results EXCEPT ![j] =
                         Append(@, SkippedRow(t, "not_installed"))]
                   /\ idx' = [idx EXCEPT ![j] = @ + 1]
                   /\ UNCHANGED <<pc, children, spawned>>
              ELSE LET c == [job |-> j, tool |-> t, cmd |-> ToolCmd(t),
                             args |-> ToolArgs(t, request[j].level),
                             target |-> ToolTarget(j), level |-> request[j].level,
                             seq |-> Len(spawned) + 1]
                   IN  /\ children' = children \cup {c}
                       /\ spawned' = Append(spawned, c)
                       /\ pc' = [pc EXCEPT ![j] = AfterSpawn]
                       /\ UNCHANGED <<results, idx>>
  /\ UNCHANGED <<impl, exits, request, dirs, onPath, nextTmp, tempInput, selected, now,
                 csvPath, csvStream, promoted, error>>

\* CloseRow with the exit code not looked at
CloseRowAnyCode(f, c, code) ==
  StatRow(f, c.tool, c.level, c.target, Plus(c.target, OutExt(c.tool)),
          SampleElapsedNs)

\* the row the close handler of runOne resolves with
CloseRow(f, c, code) ==
  IF code # 0
    THEN FailedCodeRow(c.tool, code)
    ELSE StatRow(f, c.tool, c.level, c.target, Plus(c.target, OutExt(c.tool)),
                 SampleElapsedNs)

\* a child exits: its close event resolves runOne, the row is pushed and the
\* loop goes on
Close(j) ==
  /\ \E c \in children, o \in ExitOutcomes :
       /\ c.job = j
       \* a tool whose target is gone can only fail
       /\ Exists(fs, c.target) \/ (o.code # 0 /\ ~o.wrote)
       /\ LET f1 == ToolEffect(fs, c, o)
          IN  /\ fs' = f1
              /\ results' = [results EXCEPT ![j] = Append(@, CloseRow(f1, c, o.code))]
              /\ exits' = [exits EXCEPT ![j] = Append(@,
                     [tool |-> c.tool, code |-> o.code,
                      srcThere |-> Exists(f1, c.target),
                      outThere |-> Exists(f1, Plus(c.target, OutExt(c.cmd)))])]
       /\ children' = children \ {c}
  /\ idx' = [idx EXCEPT ![j] = @ + 1]
  /\ pc' = [pc EXCEPT ![j] = "loop"]
  /\ UNCHANGED <<impl, request, dirs, onPath, nextTmp, tempInput, selected,
                 spawned, now, csvPath, csvStream, promoted, error>>

\* a child fails to start: it emits 'error', for which runOne registers no
\* listener, so the event is thrown as an uncaught exception; 'close' never
\* comes and the promise of runOne is never resolved
ChildError(j) ==
  /\ \E c \in children :
       /\ c.job = j
       /\ children' = children \ {c}
  /\ pc' = [pc EXCEPT ![j] = "crashed"]
  /\ error' = [error EXCEPT ![j] = "Unhandled 'error' event"]
  /\ UNCHANGED <<impl, exits, request, fs, dirs, onPath, nextTmp, tempInput, selected,
                 idx, results, spawned, now, csvPath, csvStream, promoted>>

\* gzipFile: outStream finishes, both files are stat'ed, the row resolves
GzipFinish(j) ==
  /\ impl = "zlib"
  /\ pc[j] = "gzipping"
  /\ \E d \in DstSizes :
       LET outPath == Plus(tempInput[j], ".gz")
           f1 == WriteFile(fs, outPath, [size |-> d, content |-> "gzip"])
       IN  /\ fs' = f1
           /\ results' = [results EXCEPT ![j] =
                  <<StatRow(f1, "gzip", request[j].level, tempInput[j], outPath,
                            SampleElapsedNs)>>]
  /\ pc' = [pc EXCEPT ![j] = "tail"]
  /\ UNCHANGED <<impl, exits, request, dirs, onPath, nextTmp, tempInput, selected, idx,
                 children, spawned, now, csvPath, csvStream, promoted, error>>

\* gzipFile: inStream or outStream emits 'error' first
GzipError(j) ==
  /\ impl = "zlib"
  /\ pc[j] = "gzipping"
  /\ results' = [results EXCEPT ![j] = <<FailedMessageRow("gzip", "EIO")>>]
  /\ pc' = [pc EXCEPT ![j] = "tail"]
  /\ UNCHANGED <<impl, exits, request, fs, dirs, onPath, nextTmp, tempInput, selected,
                 idx, children, spawned, now, csvPath, csvStream, promoted, error>>

\* the promotion loop (lines 81-86, 171-176) from result i on: the file
\* system it leaves and the destinations it copied to, in order
RECURSIVE Promote(_, _, _, _)
Promote(f, rs, i, outputDir) ==
  IF i > Len(rs)
    THEN [fs |-> f, copied |-> <<>>]
    ELSE LET r == rs[i]
             hit == Has(r, "outPath") /\ Exists(f, r.outPath)
             dest == Join(outputDir, Basename(r.outPath))
             rest == Promote(IF hit THEN CopyFile(f, r.outPath, dest) ELSE f,
                             rs, i + 1, outputDir)
         IN  [fs |-> rest.fs,
              copied |-> IF hit THEN <<dest>> \o rest.copied ELSE rest.copied]

\* path.join(logsDir, `run_${Date.now()}.csv`)
CsvPathAt(t) == Join(LogsDir, CsvName(t))

\* the loop is over: promotion, the CSV log, the return (lines 80-112 and
\* 170-198).  The cli runner hands the rows to a stream that opens and
\* writes its file later; the fallback writes the file before it returns.
Finish(j) ==
  /\ \/ impl = "cli" /\ pc[j] = "loop" /\ idx[j] > Len(selected[j])
     \/ impl = "zlib" /\ pc[j] = "tail"
  /\ LET p == Promote(fs, results[j], 1, request[j].outputDir)
         path == CsvPathAt(now)
     IN  /\ promoted' = [promoted EXCEPT ![j] = p.copied]
         /\ csvPath' = [csvPath EXCEPT ![j] = path]
         /\ IF impl = "cli"
              THEN /\ fs' = p.fs
                   /\ csvStream' = [csvStream EXCEPT ![j] =
                          [state |-> "pending", path |-> path,
                           lines |-> CsvLinesCli(results[j])]]
              ELSE /\ fs' = WriteFile(p.fs, path,
                                      [lines |-> CsvLinesZlib(results[j])])
                   /\ UNCHANGED csvStream
  /\ dirs' = dirs \cup {LogsDir}
  /\ pc' = [pc EXCEPT ![j] = "returned"]
  /\ UNCHANGED <<impl, exits, request, onPath, nextTmp, tempInput, selected, idx,
                 results, children, spawned, now, error>>

\* fs.createWriteStream(csvPath): the open with flag 'w' completes, which
\* creates the file or truncates the one that is there
CsvOpen(j) ==
  /\ csvStream[j].state = "pending"
  /\ fs' = WriteFile(fs, csvStream[j].path, [lines |-> <<>>])
  /\ csvStream' = [csvStream EXCEPT ![j].state = "open"]
  /\ UNCHANGED <<impl, exits, request, pc, dirs, onPath, nextTmp, tempInput, selected,
                 idx, results, children, spawned, now, csvPath, promoted, error>>

\* the stream writes what it was handed, from the start of the file on
CsvFlush(j) ==
  /\ csvStream[j].state = "open"
  /\ LET old == fs[csvStream[j].path].lines
         new == csvStream[j].lines
     IN  fs' = WriteFile(fs, csvStream[j].path,
                         [lines |-> new \o SubSeq(old, Len(new) + 1, Len(old))])
  /\ csvStream' = [csvStream EXCEPT ![j].state = "closed"]
  /\ UNCHANGED <<impl, exits, request, pc, dirs, onPath, nextTmp, tempInput, selected,
                 idx, results, children, spawned, now, csvPath, promoted, error>>

\* a millisecond passes (Date.now() is read by Finish only, so the clock is
\* followed while a job can still reach Finish)
Tick ==
  /\ now < MaxClock
  /\ \E j \in Jobs : pc[j] \in {"idle", "loop", "await", "gzipping", "tail"}
  /\ now' = now + 1
  /\ UNCHANGED <<impl, exits, request, pc, fs, dirs, onPath, nextTmp, tempInput,
                 selected, idx, results, children, spawned, csvPath, csvStream,
                 promoted, error>>

Next ==
  \/ \E j \in Jobs : Start(j)
  \/ \E j \in Jobs : RunTool(j)
  \/ \E j \in Jobs : Close(j)
  \/ \E j \in Jobs : ChildError(j)
  \/ \E j \in Jobs : GzipFinish(j)
  \/ \E j \in Jobs : GzipError(j)
  \/ \E j \in Jobs : Finish(j)
  \/ \E j \in Jobs : CsvOpen(j)
  \/ \E j \in Jobs : CsvFlush(j)
  \/ Tick

Spec == Init /\ [][Next]_vars
SpecLevels == InitLevels /\ [][Next]_vars
SpecTwo == InitTwo /\ [][Next]_vars

\* ----------------------------------------------------------------- claims

Returned(j) == pc[j] = "returned"
Recognized == {"gzip", "bzip2", "xz", "zstd", "lz4"}
IsRecognized(t) == t \in Recognized
\* the recognized entries of the request's tools list, in request order
RecognizedTools(j) == SelectSeq(request[j].tools, IsRecognized)
ExtOf(t) ==
  CASE t = "gzip" -> ".gz" [] t = "bzip2" -> ".bz2" [] t = "xz" -> ".xz"
    [] t = "zstd" -> ".zst" [] t = "lz4" -> ".lz4"
\* <outputDir>/<original-basename>.<ext> of tool t
ArtifactOf(j, t) ==
  [dir |-> request[j].outputDir, name |-> request[j].inputPath.name \o ExtOf(t)]
Range(q) == {q[i] : i \in 1..Len(q)}
SpawnsOf(j) == {k \in 1..Len(spawned) : spawned[k].job = j}
ChildrenOf(S, j) == {c \in S : c.job = j}

\* C1: the rows of a returned job are one row per recognized entry of the
\* request's tools list, in request order, and nothing else.
C1_RowsPerRecognizedTool ==
  \A j \in Jobs :
    Returned(j) =>
      LET want == RecognizedTools(j)
      IN  /\ Len(results[j]) = Len(want)
          /\ \A i \in 1..Len(want) : results[j][i].tool = want[i]

\* C2: once the input has been found, no job is rejected and none is left
\* hanging on an uncaught error: per-tool failures end up in rows.
C2_NoPerToolFailureAborts ==
  \A j \in Jobs :
    /\ pc[j] # "crashed"
    /\ pc[j] = "rejected" => ~Exists(fs, request[j].inputPath)

\* C3: a job whose input file does not exist is rejected with 'Input file
\* not found', and then no temp directory exists, no child was spawned, no
\* row was produced and no CSV log was written or handed to a stream.
C3_MissingInputRejected ==
  \A j \in Jobs :
    (pc[j] \notin {"unused", "idle"} /\ ~Exists(fs, request[j].inputPath)) =>
      /\ pc[j] = "rejected"
      /\ error[j] = "Input file not found"
      /\ {d \in dirs : d[1] = "tmp"} = {}
      /\ tempInput[j] = NoPath
      /\ SpawnsOf(j) = {}
      /\ ChildrenOf(children, j) = {}
      /\ results[j] = <<>>
      /\ csvPath[j] = NoPath
      /\ csvStream[j].state = "none"
      /\ {p \in DOMAIN fs : p.dir = LogsDir} = {}

C3_Witness ==
  /\ pc[1] = "rejected"
  /\ error[1] = "Input file not found"
  /\ ~Exists(fs, request[1].inputPath)

\* C4: when a job has returned, the artifact of every Succeeded row has been
\* copied into outputDir as <basename>.<ext>, one copy per Succeeded row.
C4_SucceededArtifactsPromoted ==
  \A j \in Jobs :
    Returned(j) =>
      LET ok == {i \in 1..Len(results[j]) : IsSucceeded(results[j][i])}
      IN  /\ \A i \in ok :
                /\ ArtifactOf(j, results[j][i].tool) \in Range(promoted[j])
                /\ Exists(fs, ArtifactOf(j, results[j][i].tool))
          /\ Len(promoted[j]) = Cardinality(ok)

\* C5: when a job has returned, every recognized requested tool that is not
\* on the search path has a Skipped row with reason 'not_installed' at its
\* place, was never spawned, and has no artifact copied by the job.
C5_NotInstalledSkipped ==
  \A j \in Jobs :
    Returned(j) =>
      LET want == RecognizedTools(j)
      IN  \A i \in 1..Len(want) :
            want[i] \notin onPath =>
              /\ i <= Len(results[j])
              /\ results[j][i].tool = want[i]
              /\ IsSkipped(results[j][i])
              /\ results[j][i].reason = "not_installed"
              /\ \A k \in SpawnsOf(j) : spawned[k].cmd # want[i]
              /\ ArtifactOf(j, want[i]) \notin Range(promoted[j])

\* C6: no step changes the file at inputPath: it exists after the step iff
\* it existed before, with the same size and content.
C6_InputUnchanged ==
  [][/\ Exists(fs', InputFile) <=> Exists(fs, InputFile)
     /\ Exists(fs, InputFile) => fs'[InputFile] = fs[InputFile]]_vars

\* a job returned after one of its tools deleted the file it was run on
C6_Witness ==
  /\ Returned(1)
  /\ Exists(fs, InputFile)
  /\ ~Exists(fs, tempInput[1])
  /\ Len(spawned) > 0

\* C7: two jobs that have both returned have different CSV paths.
C7_DistinctCsvNames ==
  (Returned(1) /\ Returned(2)) => csvPath[1] # csvPath[2]

\* the CSV log of job j is on disk: the CSV stream, if any, has written
CsvOnDisk(j) == Returned(j) /\ csvStream[j].state \notin {"pending", "open"}

\* C8: the CSV log on disk is the header line followed by one data line per
\* result, in order; the status is ok, error or skipped by the variant of
\* the result and the cells that do not apply to the variant are empty.
C8_CsvLog ==
  \A j \in Jobs :
    CsvOnDisk(j) =>
      LET lines == fs[csvPath[j]].lines
          rs == results[j]
      IN  /\ Len(lines) = Len(rs) + 1
          /\ lines[1].kind = "header"
          /\ lines[1].cells = <<"tool", "level", "src_bytes", "dst_bytes",
                                "ratio_saved", "elapsed_ms", "status">>
          /\ \A i \in 1..Len(rs) :
               LET r == rs[i]
                   l == lines[i + 1]
               IN  /\ l.kind = "row"
                   /\ l.cells.tool = <<r.tool>>
                   /\ IsSucceeded(r) =>
                        /\ l.cells.status = "ok"
                        /\ l.cells.level = <<r.level>>
                        /\ l.cells.src_bytes = <<r.srcSize>>
                        /\ l.cells.dst_bytes = <<r.dstSize>>
                        /\ Len(l.cells.ratio_saved) = 1
                        /\ Len(l.cells.elapsed_ms) = 1
                   /\ ~IsSucceeded(r) =>
                        /\ l.cells.status = IF IsFailed(r) THEN "error"
                                                           ELSE "skipped"
                        /\ l.cells.level = <<>>
                        /\ l.cells.src_bytes = <<>>
                        /\ l.cells.dst_bytes = <<>>
                        /\ l.cells.ratio_saved = <<>>
                        /\ l.cells.elapsed_ms = <<>>

\* C9: every bzip2 child is spawned with a level flag in 1..9: 9 for a
\* requested level above 9, 1 for one below 1, the requested level otherwise.
C9_Bzip2LevelClamped ==
  \A k \in 1..Len(spawned) :
    LET c == spawned[k]
        lvl == request[c.job].level
    IN  c.cmd = "bzip2" =>
          /\ c.args.level \in 1..9
          /\ lvl > 9 => c.args.level = 9
          /\ lvl < 1 => c.args.level = 1
          /\ lvl \in 1..9 => c.args.level = lvl

\* bzip2 requested at level 12 was spawned with -9
C9_Witness ==
  \E k \in 1..Len(spawned) :
    /\ spawned[k].cmd = "bzip2"
    /\ request[spawned[k].job].level = 12
    /\ spawned[k].args.level = 9

\* C10: a job never has two children running, and a step that spawns a child
\* for the tool at position idx of the job is taken with no child of the job
\* running and the rows of all the tools before it recorded.
C10_Sequential ==
  [][\A j \in Jobs :
       /\ Cardinality(ChildrenOf(children', j)) <= 1
       /\ ChildrenOf(children', j) \ ChildrenOf(children, j) # {} =>
            /\ ChildrenOf(children, j) = {}
            /\ Len(results[j]) = idx[j] - 1
            /\ \A c \in ChildrenOf(children', j) : c.tool = selected[j][idx[j]]]_vars

\* the second tool of a job is running, after the first one's close gave a row
C10_Witness ==
  \E c \in children :
    /\ idx[c.job] = 2
    /\ Len(results[c.job]) = 1
    /\ ~IsSkipped(results[c.job][1])

\* the files of directory d, with their data
FilesIn(f, d) == [p \in {q \in DOMAIN f : q.dir = d} |-> f[p]]
\* the step leaves job k where it was: it is no step of job k
NoStepOf(k) ==
  /\ pc'[k] = pc[k]
  /\ idx'[k] = idx[k]
  /\ results'[k] = results[k]
  /\ csvStream'[k] = csvStream[k]
  /\ ChildrenOf(children', k) = ChildrenOf(children, k)

\* C11: two jobs that have both started work in different temp directories,
\* and a step that changes a file of a job's temp directory (a cleanup, a
\* tool's output or deletion) is never a step of the other job.
C11_JobsIsolated ==
  [][/\ (tempInput'[1] # NoPath /\ tempInput'[2] # NoPath) =>
          tempInput'[1].dir # tempInput'[2].dir
     /\ \A j \in Jobs :
          (/\ tempInput[j] # NoPath
           /\ FilesIn(fs', tempInput[j].dir) # FilesIn(fs, tempInput[j].dir)) =>
            \A k \in Jobs \ {j} : NoStepOf(k)]_vars

\* job 2 has cleaned up and spawned its tool while job 1, not yet finished,
\* keeps the artifact of its own tool
C11_Witness ==
  /\ pc[1] = "loop"
  /\ tempInput[1] # NoPath
  /\ Exists(fs, Plus(tempInput[1], ".gz"))
  /\ ChildrenOf(children, 2) # {}

\* C12: for a level the UI offers (1..19), gzip, bzip2 and xz are spawned
\* with a level flag in 1..9, and the gzip of the fallback is not created
\* with a level it rejects.
C12_EveryToolClamped ==
  /\ \A k \in 1..Len(spawned) :
       LET c == spawned[k]
       IN  (/\ request[c.job].level \in 1..19
            /\ c.cmd \in {"gzip", "bzip2", "xz"}) => c.args.level \in 1..9
  /\ \A j \in Jobs :
       request[j].level \in 1..19 => error[j] # "RangeError"

NotSkipped(r) == ~IsSkipped(r)

\* C13: the rows of a job that are not Skipped rows are, in order, the rows
\* of the close events of its children, one each: a Failed row with the exit
\* code for a non-zero code; for code 0 a Failed row with a message when the
\* temp copy or <temp copy><ext> is missing, and a Succeeded row with level,
\* sizes, ratio, elapsedNs and outPath when both are there.
C13_RowByExitOutcome ==
  \A j \in Jobs :
    LET rows == SelectSeq(results[j], NotSkipped)
    IN  /\ impl = "cli" => Len(rows) = Len(exits[j])
        /\ \A k \in 1..Len(exits[j]) :
             /\ k <= Len(rows)
             /\ LET e == exits[j][k]
                    r == rows[k]
                IN  /\ r.tool = e.tool
                    /\ e.code # 0 =>
                         /\ DOMAIN r = {"tool", "error", "code"}
                         /\ r.error
                         /\ r.code = e.code
                    /\ (e.code = 0 /\ ~(e.srcThere /\ e.outThere)) =>
                         /\ DOMAIN r = {"tool", "error", "message"}
                         /\ r.error
                    /\ (e.code = 0 /\ e.srcThere /\ e.outThere) =>
                         /\ DOMAIN r = {"tool", "level", "srcSize", "dstSize",
                                        "ratio", "elapsedNs", "outPath"}
                         /\ r.level = request[j].level
                         /\ r.outPath = [dir |-> tempInput[j].dir,
                                         name |-> tempInput[j].name \o ExtOf(e.tool)]

\* a job whose first child exited non-zero and whose second child exited
\* with code 0 without leaving its output, each with its row
C13_Witness ==
  \E j \in Jobs :
    /\ Len(exits[j]) = 2
    /\ exits[j][1].code # 0
    /\ exits[j][2].code = 0 /\ ~exits[j][2].outThere
    /\ Len(results[j]) = 2

\* C14: when a job has returned, the file at its csvPath exists and holds
\* the header line and one data line per result.
C14_CsvCompleteAtReturn ==
  \A j \in Jobs :
    Returned(j) =>
      /\ Exists(fs, csvPath[j])
      /\ Len(fs[csvPath[j]].lines) = Len(results[j]) + 1
      /\ fs[csvPath[j]].lines[1].kind = "header"
      /\ \A i \in 1..Len(results[j]) : fs[csvPath[j]].lines[i + 1].kind = "row"

====
